---- MODULE Spec2Model ----
(***************************************************************************)
(* Model of the polygon editor in src/src/components/Canvas.tsx: the React *)
(* state of the Canvas component, its event handlers (handleStart,         *)
(* handleMove, handleEnd, handleInteraction, handleToolChange) and the     *)
(* geometry functions they call.                                           *)
(*                                                                         *)
(* Coordinates are JavaScript numbers (binary floating point, round to     *)
(* nearest, ties to even).  The model keeps the rounding and reduces the   *)
(* width of the significand from 53 bits to MantissaBits bits; the         *)
(* exponent is unbounded, so there is neither overflow nor underflow, and  *)
(* no operation of the handlers produces NaN or an infinity.               *)
(***************************************************************************)
EXTENDS Integers, Sequences, FiniteSets, TLC

(***************************************************************************)
(* Bounds of the model.                                                    *)
(***************************************************************************)
MantissaBits == 12

MaxCoord == 80

MaxMoves == 1

(* The canvas points the press and move events carry (getCanvasPoint). *)
Pts == { <<0, 0>>, <<40, 0>>, <<30, 10>> }

(* The canvas points the click events carry: the k-th click of the session *)
(* carries a point of the k-th set.                                        *)
Script ==
  << { <<0, 0>> }, { <<40, 0>> }, { <<40, 40>> }, { <<0, 0>>, <<5, 5>> },
     { <<30, 10>> }, { <<40, 0>> }, { <<40, 40>> }, { <<30, 10>>, <<40, 0>> },
     { <<5, 5>>, <<40, 0>> } >>

(***************************************************************************)
(* Numbers.  A number is <<m, e>>, standing for m * 2^e, in canonical      *)
(* form: an integer below 2^MantissaBits in magnitude is <<m, 0>>, any     *)
(* other number has an odd m, |m| < 2^MantissaBits.                        *)
(***************************************************************************)
Abs(n) == IF n < 0 THEN -n ELSE n

Sgn(n) == IF n < 0 THEN -1 ELSE IF n > 0 THEN 1 ELSE 0

Min(a, b) == IF a < b THEN a ELSE b

(* One step of the binary search of BitLen: n has more than a bits. *)
BitStep(n, a, k) == IF n >= 2 ^ (a + k) THEN a + k ELSE a

(* The number of bits of n, 0 <= n < 2^31. *)
BitLen(n) ==
  IF n = 0 THEN 0
  ELSE BitStep(n, BitStep(n, BitStep(n, BitStep(n, BitStep(n, 0, 16), 8), 4),
                          2), 1) + 1

(* One step of the binary search of TrailingZeros: the a low bits of n are *)
(* zero.                                                                   *)
ZeroStep(n, a, k) == IF n % (2 ^ (a + k)) = 0 THEN a + k ELSE a

(* The number of trailing zero bits of n, 0 < n < 2^31. *)
TrailingZeros(n) ==
  ZeroStep(n, ZeroStep(n, ZeroStep(n, ZeroStep(n, ZeroStep(n, 0, 16), 8), 4),
                       2), 1)

Limit == 2 ^ MantissaBits

Zero == <<0, 0>>

One == <<1, 0>>

(* The canonical form of mo * 2^eo for an odd mo, |mo| < Limit. *)
NormOdd(mo, eo) ==
  IF eo >= 0 /\ eo + BitLen(Abs(mo)) <= MantissaBits
  THEN <<mo * (2 ^ eo), 0>>
  ELSE <<mo, eo>>

(* The canonical form of m * 2^e for the z trailing zero bits of m. *)
NormShift(m, e, z) == NormOdd(m \div (2 ^ z), e + z)

(* The canonical form of m * 2^e, |m| < Limit: an integer below Limit in   *)
(* magnitude is <<m * 2^e, 0>>, any other number has an odd m.             *)
Norm(m, e) ==
  IF m = 0 THEN Zero
  ELSE IF e = 0 THEN <<m, 0>>
  ELSE NormShift(m, e, IF m % 2 = 1 THEN 0 ELSE TrailingZeros(Abs(m)))

(* s * q * 2^e for a sign s and what is left of the significand after the  *)
(* shift: the quotient q, the remainder r, and half of the last place.     *)
RoundTies(s, e, q, r, half) ==
  IF r > half \/ (r = half /\ q % 2 = 1)
  THEN IF q + 1 = Limit THEN <<s, e + MantissaBits>> ELSE <<s * (q + 1), e>>
  ELSE <<s * q, e>>

(* M * 2^e with the significand cut by sh bits. *)
RoundShift(M, e, sh) ==
  RoundTies(Sgn(M), e + sh, Abs(M) \div (2 ^ sh), Abs(M) % (2 ^ sh),
            2 ^ (sh - 1))

(* The pair <<m, e>>, |m| < Limit, nearest to M * 2^e, ties to the even    *)
(* significand.                                                            *)
RoundPair(M, e) ==
  IF -Limit < M /\ M < Limit THEN <<M, e>>
  ELSE RoundShift(M, e, BitLen(Abs(M)) - MantissaBits)

NormPair(p) == Norm(p[1], p[2])

(* The number nearest to M * 2^e, ties to the even significand. *)
Round(M, e) == NormPair(RoundPair(M, e))

Num(i) == Round(i, 0)

Neg(a) == <<-a[1], a[2]>>

(* a is so far above b that b is below a quarter of the last place of a. *)
Above(a, b) ==
  /\ a[2] # b[2]
  /\ (a[2] + BitLen(Abs(a[1]))) - (b[2] + BitLen(Abs(b[1]))) > MantissaBits + 2

(* a + b with both significands at the exponent e. *)
PlusAt(a, b, e) ==
  Round(a[1] * (2 ^ (a[2] - e)) + b[1] * (2 ^ (b[2] - e)), e)

(* a + b.  An operand below a quarter of the last place of the other one  *)
(* does not change the rounded sum.                                        *)
Plus(a, b) ==
  IF a[1] = 0 THEN b
  ELSE IF b[1] = 0 THEN a
  ELSE IF Above(a, b) THEN a
  ELSE IF Above(b, a) THEN b
  ELSE PlusAt(a, b, Min(a[2], b[2]))

Minus(a, b) == Plus(a, Neg(b))

Times(a, b) == Round(a[1] * b[1], a[2] + b[2])

(* a / b from N = |a[1]| * 2^k: the quotient and a sticky bit. *)
OverScaled(a, b, k, N) ==
  Round(Sgn(a[1]) * Sgn(b[1])
          * (2 * (N \div Abs(b[1])) + (IF N % Abs(b[1]) = 0 THEN 0 ELSE 1)),
        a[2] - b[2] - k - 1)

OverShift(a, b, k) == OverScaled(a, b, k, Abs(a[1]) * (2 ^ k))

(* a / b for b # 0: the quotient to MantissaBits + 2 bits and a sticky bit. *)
Over(a, b) ==
  IF a[1] = 0 THEN Zero
  ELSE OverShift(a, b, MantissaBits + 2 + BitLen(Abs(b[1])) - BitLen(Abs(a[1])))

(* One step of Newton's iteration for the integer square root of N. *)
RECURSIVE ISqrtIter(_, _, _)
ISqrtIter(N, x, y) ==
  IF y >= x THEN x ELSE ISqrtIter(N, y, (y + N \div y) \div 2)

ISqrtFrom(N, x) == ISqrtIter(N, x, (x + N \div x) \div 2)

(* The integer square root of N, from a power of two above it. *)
ISqrt(N) == IF N = 0 THEN 0 ELSE ISqrtFrom(N, 2 ^ ((BitLen(N) + 1) \div 2))

(* The square root of N * 2^(2 e + 2) from s, the integer square root of N, *)
(* and a sticky bit.                                                        *)
SqrtSticky(N, e, s) == Round(2 * s + (IF s * s = N THEN 0 ELSE 1), e)

SqrtScaled(N, e) == SqrtSticky(N, e, ISqrt(N))

(* The square root of a from a[1] * 2^k, with a[2] - k even. *)
SqrtEven(a, k) == SqrtScaled(a[1] * (2 ^ k), ((a[2] - k) \div 2) - 1)

SqrtShift(a, k0) == SqrtEven(a, IF (a[2] - k0) % 2 = 0 THEN k0 ELSE k0 + 1)

(* Math.sqrt(a) for a >= 0. *)
Sqrt(a) ==
  IF a[1] = 0 THEN Zero
  ELSE SqrtShift(a, 2 * MantissaBits + 3 - BitLen(a[1]))

Lt(a, b) ==
  IF a[2] = b[2] THEN a[1] < b[1] ELSE Minus(a, b)[1] < 0

(***************************************************************************)
(* Program constants and types.                                            *)
(***************************************************************************)
HANDLE_SIZE == 8

EDGE_DETECTION_THRESHOLD == 10

CLOSE_THRESHOLD == 20

Tool == {"hand", "pencil", "select"}

DragMode == {"move", "resize"}

colors == << "#3498db", "#e74c3c", "#2ecc71", "#f1c40f",
             "#9b59b6", "#1abc9c", "#e67e22", "#34495e" >>

(* null of `number | null'; indices are 0-based as in the source. *)
null == -1

(* null and a value of `Point | null' and of the result of the resolver. *)
None == << >>

Some(v) == << v >>

Point(i, j) == [x |-> Num(i), y |-> Num(j)]

(* The element at the 0-based index i of the array s. *)
At(s, i) == s[i + 1]

(***************************************************************************)
(* Geometry.                                                               *)
(***************************************************************************)
(* Math.sqrt(dx * dx + dy * dy) *)
Hypot(dx, dy) == Sqrt(Plus(Times(dx, dx), Times(dy, dy)))

(* Math.sqrt(Math.pow(q.x - p.x, 2) + Math.pow(q.y - p.y, 2)) *)
Distance(q, p) == Hypot(Minus(q.x, p.x), Minus(q.y, p.y))

(* The end of projectPointOnLine, from t. *)
ProjectAt(start, dx, dy, t) ==
  IF Lt(t, Zero) \/ Lt(One, t) THEN None
  ELSE Some([x |-> Plus(start.x, Times(t, dx)),
             y |-> Plus(start.y, Times(t, dy))])

(* projectPointOnLine from length on. *)
ProjectLength(point, start, dx, dy, length) ==
  IF length = Zero THEN None
  ELSE ProjectAt(start, dx, dy,
                 Over(Plus(Times(Minus(point.x, start.x), dx),
                           Times(Minus(point.y, start.y), dy)),
                      Times(length, length)))

(* projectPointOnLine from dx and dy on. *)
ProjectDelta(point, start, dx, dy) ==
  ProjectLength(point, start, dx, dy, Hypot(dx, dy))

projectPointOnLine(point, start, end) ==
  ProjectDelta(point, start, Minus(end.x, start.x), Minus(end.y, start.y))

(* The end of the body of the loop of findClosestEdgePoint, from distance. *)
EdgeCloser(i, acc, projection, distance) ==
  IF /\ Lt(distance, Num(EDGE_DETECTION_THRESHOLD))
     /\ (acc.closestDistance = None \/ Lt(distance, acc.closestDistance[1]))
  THEN [closestPoint    |-> projection,
        closestDistance |-> Some(distance),
        insertIndex     |-> i + 1]
  ELSE acc

(* The body of the loop of findClosestEdgePoint from projection on. *)
EdgeProjected(point, i, acc, projection) ==
  IF projection = None THEN acc
  ELSE EdgeCloser(i, acc, projection, Distance(point, projection[1]))

(* The body of the loop of findClosestEdgePoint for the edge i; acc holds  *)
(* closestPoint, closestDistance (None for Infinity) and insertIndex.      *)
EdgeStep(point, polygonPoints, i, acc) ==
  EdgeProjected(point, i, acc,
                projectPointOnLine(point, At(polygonPoints, i),
                                   At(polygonPoints,
                                      (i + 1) % Len(polygonPoints))))

RECURSIVE EdgeLoop(_, _, _, _)
EdgeLoop(point, polygonPoints, i, acc) ==
  IF i >= Len(polygonPoints) THEN acc
  ELSE EdgeLoop(point, polygonPoints, i + 1,
                EdgeStep(point, polygonPoints, i, acc))

(* The return of findClosestEdgePoint. *)
EdgeResult(acc) ==
  IF acc.closestPoint # None
  THEN Some([point |-> acc.closestPoint[1], index |-> acc.insertIndex])
  ELSE None

findClosestEdgePoint(point, polygonPoints) ==
  EdgeResult(EdgeLoop(point, polygonPoints, 0,
                      [closestPoint |-> None, closestDistance |-> None,
                       insertIndex |-> -1]))

isPointNearHandle(point, handlePoint) ==
  Lt(Distance(handlePoint, point), Num(HANDLE_SIZE))

(* The test `intersect' of isPointInPolygon for the pair (i, j). *)
Intersect(point, polygonPoints, i, j) ==
  LET xi == At(polygonPoints, i).x
      yi == At(polygonPoints, i).y
      xj == At(polygonPoints, j).x
      yj == At(polygonPoints, j).y
  IN  /\ Lt(point.y, yi) # Lt(point.y, yj)
      /\ Lt(point.x,
            Plus(Over(Times(Minus(xj, xi), Minus(point.y, yi)), Minus(yj, yi)),
                 xi))

RECURSIVE InsideLoop(_, _, _, _, _)
InsideLoop(point, polygonPoints, i, j, inside) ==
  IF i >= Len(polygonPoints) THEN inside
  ELSE InsideLoop(point, polygonPoints, i + 1, i,
                  IF Intersect(point, polygonPoints, i, j)
                  THEN ~inside ELSE inside)

isPointInPolygon(point, polygonPoints) ==
  InsideLoop(point, polygonPoints, 0, Len(polygonPoints) - 1, FALSE)

(* updatedPoints.splice(index, 0, p) *)
Splice(points, index, p) ==
  SubSeq(points, 1, index) \o << p >> \o SubSeq(points, index + 1, Len(points))

(***************************************************************************)
(* State of the component.                                                 *)
(***************************************************************************)
VARIABLES currentPoints, polygons, selectedPolygon, isDragging, dragStart,
          activeTool, dragMode, selectedHandle

state == << currentPoints, polygons, selectedPolygon, isDragging, dragStart,
            activeTool, dragMode, selectedHandle >>

(* The environment: the number of click events and of move events that    *)
(* changed a polygon so far.                                               *)
VARIABLES clicks, moves

vars == << state, clicks, moves >>

Init ==
  /\ currentPoints = << >>
  /\ polygons = << >>
  /\ selectedPolygon = null
  /\ isDragging = FALSE
  /\ dragStart = None
  /\ activeTool = "pencil"
  /\ dragMode = "move"
  /\ selectedHandle = null
  /\ clicks = 0
  /\ moves = 0

CanvasPoints == { Point(p[1], p[2]) : p \in Pts }

ClickPoints(k) == { Point(p[1], p[2]) : p \in Script[k] }

InBox(p) ==
  /\ ~Lt(p.x, Num(-MaxCoord)) /\ ~Lt(Num(MaxCoord), p.x)
  /\ ~Lt(p.y, Num(-MaxCoord)) /\ ~Lt(Num(MaxCoord), p.y)

(* The 0-based indices of the array s. *)
Indices(s) == 0 .. (Len(s) - 1)

SetMax(S) == CHOOSE i \in S : \A j \in S : j <= i

SetMin(S) == CHOOSE i \in S : \A j \in S : i <= j

(* The state a handler reads: the values of the render it was created in. *)
current ==
  [currentPoints   |-> currentPoints,
   polygons        |-> polygons,
   selectedPolygon |-> selectedPolygon,
   isDragging      |-> isDragging,
   dragStart       |-> dragStart,
   activeTool      |-> activeTool,
   dragMode        |-> dragMode,
   selectedHandle  |-> selectedHandle]

(* The next render: the state after the set-calls of a handler, given as   *)
(* the record r of the values they leave.                                  *)
setState(r) ==
  /\ currentPoints' = r.currentPoints
  /\ polygons' = r.polygons
  /\ selectedPolygon' = r.selectedPolygon
  /\ isDragging' = r.isDragging
  /\ dragStart' = r.dragStart
  /\ activeTool' = r.activeTool
  /\ dragMode' = r.dragMode
  /\ selectedHandle' = r.selectedHandle

(***************************************************************************)
(* handlePencilInteraction                                                 *)
(***************************************************************************)
(* The polygons for which the scan of handlePencilInteraction finds an     *)
(* edge point.                                                             *)
EdgeCandidates(point) ==
  { i \in Indices(polygons) :
      findClosestEdgePoint(point, At(polygons, i).points) # None }

(* ClosesShape without the test of the length of the path. *)
ClosesShapeAnyLength(point) ==
  /\ Len(currentPoints) > 0
  /\ Lt(Distance(At(currentPoints, 0), point), Num(CLOSE_THRESHOLD))

ClosesShape(point) ==
  /\ Len(currentPoints) > 2
  /\ Lt(Distance(At(currentPoints, 0), point), Num(CLOSE_THRESHOLD))

(* ClosedPolygon with a palette that wraps one colour early. *)
ClosedPolygonShortPalette(point) ==
  [points |-> currentPoints,
   color  |-> colors[(Len(polygons) % (Len(colors) - 1)) + 1]]

(* ClosedPolygon with the closing click as the last point. *)
ClosedPolygonWithClick(point) ==
  [points |-> Append(currentPoints, point),
   color  |-> colors[(Len(polygons) % Len(colors)) + 1]]

(* The polygon a closing click at point commits. *)
ClosedPolygon(point) ==
  [points |-> currentPoints,
   color  |-> colors[(Len(polygons) % Len(colors)) + 1]]

(* InsertionTarget with the scan in the order of the array. *)
InsertionTargetFirst(candidates) == SetMin(candidates)

(* The polygon at which the scan `for (let i = polygons.length - 1; ...)'  *)
(* returns: the last of the polygons with an edge point.                   *)
InsertionTarget(candidates) == SetMax(candidates)

(* The insertion of edgePoint into the polygon i. *)
PencilSplice(i, edgePoint) ==
  [current EXCEPT
     !.polygons = [polygons EXCEPT
                     ![i + 1].points = Splice(@, edgePoint.index,
                                              edgePoint.point)],
     !.selectedPolygon = i,
     !.selectedHandle = edgePoint.index]

PencilInsert(point, i) ==
  PencilSplice(i, findClosestEdgePoint(point, At(polygons, i).points)[1])

(* handlePencilInteraction after the closing test, with the polygons the   *)
(* scan finds an edge point for, none when a path is being drawn.          *)
PencilScan(point, candidates) ==
  IF candidates # {}
  THEN PencilInsert(point, InsertionTarget(candidates))
  ELSE [current EXCEPT !.currentPoints = Append(currentPoints, point)]

handlePencilInteraction(point) ==
  IF ClosesShape(point)
  THEN [current EXCEPT !.polygons = Append(polygons, ClosedPolygon(point)),
                       !.currentPoints = << >>]
  ELSE PencilScan(point, IF Len(currentPoints) = 0
                         THEN EdgeCandidates(point) ELSE {})

(***************************************************************************)
(* handleStart                                                             *)
(***************************************************************************)
(* The handles of the selected polygon the scan of handleStart tests and   *)
(* finds near the point.                                                   *)
(* NearHandles without the test `activeTool === 'select''. *)
NearHandlesAnyTool(point) ==
  IF selectedPolygon # null
  THEN { i \in Indices(At(polygons, selectedPolygon).points) :
           isPointNearHandle(point, At(At(polygons, selectedPolygon).points, i)) }
  ELSE {}

NearHandles(point) ==
  IF activeTool = "select" /\ selectedPolygon # null
  THEN { i \in Indices(At(polygons, selectedPolygon).points) :
           isPointNearHandle(point, At(At(polygons, selectedPolygon).points, i)) }
  ELSE {}

Containing(point) ==
  { i \in Indices(polygons) : isPointInPolygon(point, At(polygons, i).points) }

(* HandleTarget with the scan in the reverse order. *)
HandleTargetLast(handles) == SetMax(handles)

(* The handle at which the scan `for (let i = 0; ...)' returns: the first  *)
(* of the near handles.                                                    *)
HandleTarget(handles) == SetMin(handles)

(* SelectionTarget with the scan in the order of the array. *)
SelectionTargetFirst(hits) == SetMin(hits)

(* The polygon at which the scan `for (let i = polygons.length - 1; ...)'  *)
(* breaks: the last of the polygons that contain the point.                *)
SelectionTarget(hits) == SetMax(hits)

(* handleStart after the scan of the handles, with the polygons that      *)
(* contain the point.                                                      *)
StartFill(point, hits) ==
  IF hits # {}
  THEN [current EXCEPT !.selectedPolygon = SelectionTarget(hits),
                       !.isDragging = TRUE,
                       !.dragStart = Some(point),
                       !.dragMode = "move"]
  ELSE [current EXCEPT !.selectedPolygon = null,
                       !.selectedHandle = null]

(* handleStart from the scan of the handles on, with the near handles. *)
StartHandle(point, handles) ==
  IF handles # {}
  THEN [current EXCEPT !.dragMode = "resize",
                       !.selectedHandle = HandleTarget(handles),
                       !.isDragging = TRUE,
                       !.dragStart = Some(point)]
  ELSE StartFill(point, Containing(point))

(* handleStart without `if (activeTool === 'pencil') return'. *)
handleStartAnyTool(point) == StartHandle(point, NearHandles(point))

handleStart(point) ==
  IF activeTool = "pencil" THEN current
  ELSE StartHandle(point, NearHandles(point))

(***************************************************************************)
(* handleMove                                                              *)
(***************************************************************************)
Translate(p, dx, dy) == [x |-> Plus(p.x, dx), y |-> Plus(p.y, dy)]

MovedPoints(points, dx, dy) ==
  IF dragMode = "resize" /\ selectedHandle # null
  THEN [points EXCEPT ![selectedHandle + 1] = Translate(@, dx, dy)]
  ELSE IF dragMode = "move"
  THEN [k \in 1 .. Len(points) |-> Translate(points[k], dx, dy)]
  ELSE points

(* updatedPoints[selectedHandle] is undefined and reading its x throws:    *)
(* the handler ends before it sets any state.                              *)
Throws ==
  /\ dragMode = "resize"
  /\ selectedHandle # null
  /\ selectedHandle >= Len(At(polygons, selectedPolygon).points)

(* handleMove from dx and dy on. *)
Drag(point, dx, dy) ==
  [current EXCEPT
     !.polygons = [polygons EXCEPT
                     ![selectedPolygon + 1].points = MovedPoints(@, dx, dy)],
     !.dragStart = Some(point)]

handleMove(point) ==
  IF ~isDragging \/ selectedPolygon = null \/ dragStart = None
  THEN current
  ELSE IF Throws THEN current
  ELSE Drag(point, Minus(point.x, dragStart[1].x),
            Minus(point.y, dragStart[1].y))

(***************************************************************************)
(* handleEnd, handleInteraction, handleToolChange                          *)
(***************************************************************************)
(* handleEnd with setSelectedHandle(null) whatever isDragging is. *)
handleEndClearsHandle ==
  [current EXCEPT !.isDragging = FALSE,
                  !.dragStart = None,
                  !.dragMode = "move",
                  !.selectedHandle = null]

handleEnd ==
  [current EXCEPT !.isDragging = FALSE,
                  !.dragStart = None,
                  !.dragMode = "move",
                  !.selectedHandle = IF ~isDragging THEN null ELSE @]

(* handleInteraction without its two early returns. *)
handleInteractionUnguarded(point) == handlePencilInteraction(point)

handleInteraction(point) ==
  IF isDragging THEN current
  ELSE IF activeTool = "pencil" THEN handlePencilInteraction(point)
  ELSE current

(* handleToolChange without setIsDragging(false) and setDragStart(null). *)
handleToolChangeKeepsDrag(tool) ==
  [current EXCEPT
     !.activeTool = tool,
     !.selectedPolygon = IF tool = "pencil" THEN null ELSE @,
     !.selectedHandle = IF tool = "pencil" THEN null ELSE @,
     !.currentPoints = IF tool = "hand" \/ tool = "select" THEN << >> ELSE @]

(* handleToolChange without setCurrentPoints([]). *)
handleToolChangeKeepsPath(tool) ==
  [current EXCEPT
     !.activeTool = tool,
     !.selectedPolygon = IF tool = "pencil" THEN null ELSE @,
     !.selectedHandle = IF tool = "pencil" THEN null ELSE @,
     !.isDragging = FALSE,
     !.dragStart = None]

handleToolChange(tool) ==
  [current EXCEPT
     !.activeTool = tool,
     !.selectedPolygon = IF tool = "pencil" THEN null ELSE @,
     !.selectedHandle = IF tool = "pencil" THEN null ELSE @,
     !.isDragging = FALSE,
     !.dragStart = None,
     !.currentPoints = IF tool = "hand" \/ tool = "select" THEN << >> ELSE @]

(* onTouchStart of the canvas *)
onTouchStart(point) ==
  IF activeTool = "pencil" THEN handleInteraction(point)
  ELSE handleStart(point)

(***************************************************************************)
(* The events of the canvas and of the tool buttons.                       *)
(***************************************************************************)
(* onMouseDown *)
Press ==
  \E p \in CanvasPoints :
    setState(handleStart(p)) /\ UNCHANGED << clicks, moves >>

(* onMouseMove, onTouchMove *)
Move ==
  \E p \in CanvasPoints :
    /\ setState(handleMove(p))
    /\ \A i \in 1 .. Len(polygons') :
         \A k \in 1 .. Len(polygons'[i].points) : InBox(polygons'[i].points[k])
    /\ moves' = IF polygons' # polygons THEN moves + 1 ELSE moves
    /\ moves' <= MaxMoves
    /\ UNCHANGED clicks

(* onMouseUp, onTouchEnd, onMouseLeave, onTouchCancel *)
Release == setState(handleEnd) /\ UNCHANGED << clicks, moves >>

(* A click while a path can be drawn is the next click of Script; any      *)
(* other click is dropped by handleInteraction whatever its point.         *)
Drawing == activeTool = "pencil" /\ ~isDragging

(* onClick *)
Commit ==
  IF Drawing
  THEN /\ clicks < Len(Script)
       /\ \E p \in ClickPoints(clicks + 1) : setState(handleInteraction(p))
       /\ clicks' = clicks + 1
       /\ UNCHANGED moves
  ELSE \E p \in CanvasPoints :
         setState(handleInteraction(p)) /\ UNCHANGED << clicks, moves >>

TouchStart ==
  IF Drawing
  THEN /\ clicks < Len(Script)
       /\ \E p \in ClickPoints(clicks + 1) : setState(onTouchStart(p))
       /\ clicks' = clicks + 1
       /\ UNCHANGED moves
  ELSE \E p \in CanvasPoints :
         setState(onTouchStart(p)) /\ UNCHANGED << clicks, moves >>

(* onClick of a tool button *)
SetTool ==
  \E t \in Tool : setState(handleToolChange(t)) /\ UNCHANGED << clicks, moves >>

Next == Press \/ Move \/ Release \/ Commit \/ TouchStart \/ SetTool

Spec == Init /\ [][Next]_vars

TypeOK ==
  /\ activeTool \in Tool
  /\ dragMode \in DragMode
  /\ isDragging \in BOOLEAN
  /\ selectedPolygon \in {null} \cup Indices(polygons)

(***************************************************************************)
(* The drag session of the state machine, idle, moving or resizing, in the *)
(* state r.                                                                *)
(***************************************************************************)
(***************************************************************************)
(* findClosestEdgePoint on its own: the first polygon is any three of the  *)
(* points of EdgeVertices, drawn by three clicks and a closing click, and  *)
(* the clicks that follow, at the points of EdgeClicks, reach              *)
(* findClosestEdgePoint through handlePencilInteraction.                   *)
(***************************************************************************)
MaxEdgePoints == 4

EdgeVertices == { <<0, 0>>, <<30, 25>>, <<40, 0>>, <<0, 40>> }

EdgeClicks == { <<30, 25>>, <<35, 19>>, <<20, 3>>, <<20, 20>>, <<38, 2>>,
                <<20, 12>> }

EdgeClickPoints == { Point(p[1], p[2]) : p \in EdgeClicks }

InitEdge ==
  /\ currentPoints = << >>
  /\ \E a \in EdgeVertices : \E b \in EdgeVertices : \E c \in EdgeVertices :
       polygons = << [points |-> << Point(a[1], a[2]), Point(b[1], b[2]),
                                    Point(c[1], c[2]) >>,
                      color  |-> colors[1]] >>
  /\ selectedPolygon = null
  /\ isDragging = FALSE
  /\ dragStart = None
  /\ activeTool = "pencil"
  /\ dragMode = "move"
  /\ selectedHandle = null
  /\ clicks = 0
  /\ moves = 0

(* onClick with no path in progress *)
ClickEdge ==
  /\ currentPoints = << >>
  /\ Len(polygons[1].points) < MaxEdgePoints
  /\ \E p \in EdgeClickPoints : setState(handleInteraction(p))
  /\ UNCHANGED << clicks, moves >>

NextEdge == ClickEdge \/ SetTool

SpecEdge == InitEdge /\ [][NextEdge]_vars

(***************************************************************************)
(* The palette around: the user draws MaxPolygons triangles side by side,  *)
(* the k-th at (80k, 0), (80k + 40, 0), (80k + 40, 40), and in between     *)
(* inserts a vertex into the first one, moves it and moves its vertices.   *)
(***************************************************************************)
MaxPolygons == 9

(* The clicks that draw the triangle k, with n points of it drawn. *)
PaletteClicks(k, n) ==
  IF n = 0 THEN { Point(80 * k, 0) }
  ELSE IF n = 1 THEN { Point(80 * k + 40, 0) }
  ELSE IF n = 2 THEN { Point(80 * k + 40, 40) }
  ELSE { Point(80 * k, 0), Point(80 * k + 5, 5) }

PalettePoints == { Point(30, 10), Point(40, 0) }

(* onClick, at the next point of the triangle in progress *)
ClickPalette ==
  /\ Drawing
  /\ Len(polygons) < MaxPolygons
  /\ Len(currentPoints) <= 3
  /\ \E p \in PaletteClicks(Len(polygons), Len(currentPoints)) :
       setState(handleInteraction(p))
  /\ UNCHANGED << clicks, moves >>

(* onClick, near an edge of the first triangle *)
InsertPalette ==
  /\ Drawing
  /\ currentPoints = << >>
  /\ polygons # << >>
  /\ Len(polygons[1].points) < MaxEdgePoints
  /\ EdgeCandidates(Point(20, 0)) # {}
  /\ setState(handleInteraction(Point(20, 0)))
  /\ UNCHANGED << clicks, moves >>

(* onMouseDown *)
PressPalette ==
  \E p \in PalettePoints :
    setState(handleStart(p)) /\ UNCHANGED << clicks, moves >>

(* onMouseMove *)
MovePalette ==
  \E p \in PalettePoints :
    /\ setState(handleMove(p))
    /\ moves' = IF polygons' # polygons THEN moves + 1 ELSE moves
    /\ moves' <= MaxMoves
    /\ UNCHANGED clicks

NextPalette ==
  \/ ClickPalette
  \/ InsertPalette
  \/ PressPalette
  \/ MovePalette
  \/ Release
  \/ SetTool

SpecPalette == Init /\ [][NextPalette]_vars

dragOf(r) ==
  IF ~r.isDragging THEN "idle"
  ELSE IF r.dragMode = "resize" THEN "resizing" ELSE "moving"

drag == dragOf(current)

(* Every point an event of the model carries. *)
AllPoints ==
  CanvasPoints \cup UNION { ClickPoints(k) : k \in 1 .. Len(Script) }

(* The vertices of the selected polygon at distance < HANDLE_SIZE of p. *)
NearVertices(p) ==
  IF selectedPolygon = null THEN {}
  ELSE { k \in Indices(At(polygons, selectedPolygon).points) :
           Lt(Distance(At(At(polygons, selectedPolygon).points, k), p),
              Num(HANDLE_SIZE)) }

(* The polygons whose fill region contains p. *)
Hit(p) ==
  { i \in Indices(polygons) : isPointInPolygon(p, At(polygons, i).points) }

(***************************************************************************)
(* C1: in every reachable state, if a drag session is active (moving or    *)
(* resizing) then a polygon is selected.                                   *)
(***************************************************************************)
C1_DragHasSelection == drag # "idle" => selectedPolygon # null

(***************************************************************************)
(* C2: in every reachable state, if the selected-vertex index is set then  *)
(* a polygon is selected and the index is a valid index into the points of *)
(* the selected polygon.                                                   *)
(***************************************************************************)
C2_HandleIsValidIndex ==
  selectedHandle # null =>
    /\ selectedPolygon # null
    /\ 0 <= selectedHandle
    /\ selectedHandle < Len(At(polygons, selectedPolygon).points)

(***************************************************************************)
(* C3: whenever a press changes the selected polygon from one polygon to a *)
(* different polygon, the selected vertex is none after that press.        *)
(***************************************************************************)
C3_ChangeOfPolygonClearsHandle ==
  \A p \in CanvasPoints :
    LET r == handleStart(p)
    IN  ( /\ selectedPolygon # null
          /\ r.selectedPolygon # null
          /\ r.selectedPolygon # selectedPolygon )
        => r.selectedHandle = null

(***************************************************************************)
(* C4: a press under the hand or select tool that matches no vertex handle *)
(* of the selected polygon and lies inside no polygon leaves the selected  *)
(* polygon none, the selected vertex none and the drag session idle, also  *)
(* when the press arrives while a drag is active.                          *)
(***************************************************************************)
C4_MissClearsEverything ==
  \A p \in CanvasPoints :
    ( /\ activeTool \in {"hand", "select"}
      /\ NearVertices(p) = {}
      /\ Hit(p) = {} )
    => LET r == handleStart(p)
       IN  /\ r.selectedPolygon = null
           /\ r.selectedHandle = null
           /\ dragOf(r) = "idle"

(***************************************************************************)
(* C5: in every reachable state every committed polygon has at least 3     *)
(* points; a polygon is created only by a closing click on a path of more  *)
(* than 2 points, and no event reduces the number of points of a polygon.  *)
(***************************************************************************)
C5_MinPoints ==
  \A i \in 1 .. Len(polygons) : Len(polygons[i].points) >= 3

C5_Step ==
  /\ Len(polygons') >= Len(polygons)
  /\ \A i \in 1 .. Len(polygons) :
       Len(polygons'[i].points) >= Len(polygons[i].points)
  /\ Len(polygons') > Len(polygons) =>
       /\ Len(polygons') = Len(polygons) + 1
       /\ Len(currentPoints) > 2
       /\ activeTool = "pencil"

C5_AtLeastThreePoints == []C5_MinPoints /\ [][C5_Step]_vars

(* A polygon that got a point by an insertion and was then dragged. *)
C5_Witness ==
  /\ moves = 1
  /\ \E i \in 1 .. Len(polygons) : Len(polygons[i].points) = 4

(***************************************************************************)
(* C6: in every reachable state exactly one tool of hand, select, pencil   *)
(* is active, the first one is pencil, and the path being drawn is         *)
(* non-empty only when the active tool is pencil.                          *)
(***************************************************************************)
C6_Tool ==
  /\ activeTool \in {"hand", "select", "pencil"}
  /\ currentPoints # << >> => activeTool = "pencil"

C6_OneToolAndPathOnlyUnderPencil == activeTool = "pencil" /\ []C6_Tool

(* A path is being drawn again after a change of tool dropped one. *)
C6_Witness ==
  /\ activeTool = "pencil"
  /\ polygons = << >>
  /\ clicks = 3
  /\ Len(currentPoints) = 1

(***************************************************************************)
(* C7: under the pencil tool with no drag active, a click when the path    *)
(* has more than 2 points and the click is at distance < 20 of its first   *)
(* point appends exactly one polygon whose points are the path in order,   *)
(* without the click point, empties the path and leaves every polygon      *)
(* committed before unchanged; hence three clicks at distant points and a  *)
(* fourth within 20 of the first yield one polygon of the three points and *)
(* an empty path.                                                          *)
(***************************************************************************)
C7_Closing ==
  \A p \in AllPoints :
    ( /\ activeTool = "pencil"
      /\ drag = "idle"
      /\ Len(currentPoints) > 2
      /\ Lt(Distance(currentPoints[1], p), Num(20)) )
    => LET r == handleInteraction(p)
       IN  /\ Len(r.polygons) = Len(polygons) + 1
           /\ SubSeq(r.polygons, 1, Len(polygons)) = polygons
           /\ r.polygons[Len(r.polygons)].points = currentPoints
           /\ r.currentPoints = << >>

C7_Workflow ==
  ( /\ clicks = 4
    /\ moves = 0
    /\ Len(polygons) = 1 )
  => /\ polygons[1].points = << Point(0, 0), Point(40, 0), Point(40, 40) >>
     /\ currentPoints = << >>

C7_ClosingClickCommitsPath == C7_Closing /\ C7_Workflow

(* The polygon of the first three clicks, closed by the fourth. *)
C7_Witness ==
  /\ clicks = 4
  /\ activeTool = "pencil"
  /\ Len(polygons) = 1
  /\ polygons[1].points = << Point(0, 0), Point(40, 0), Point(40, 40) >>
  /\ currentPoints = << >>

(***************************************************************************)
(* C8: under the pencil tool with an empty path, a click for which some    *)
(* polygon yields an insertion candidate modifies only the highest-index   *)
(* such polygon: the point the resolver returns is spliced into it at the  *)
(* index the resolver returns (one point more, the points it had keep      *)
(* their order), that polygon becomes the selected polygon, the selected   *)
(* vertex becomes that index, the path stays empty, and the other polygons *)
(* and the number of polygons are unchanged.                               *)
(***************************************************************************)
C8_Inserted(p, i, r) ==
  LET e   == findClosestEdgePoint(p, At(polygons, i).points)
      old == At(polygons, i).points
      new == At(r.polygons, i).points
  IN  /\ e # None
      /\ \A j \in Indices(polygons) :
           j > i => findClosestEdgePoint(p, At(polygons, j).points) = None
      /\ Len(r.polygons) = Len(polygons)
      /\ \A j \in Indices(polygons) \ {i} : At(r.polygons, j) = At(polygons, j)
      /\ At(r.polygons, i).color = At(polygons, i).color
      /\ Len(new) = Len(old) + 1
      /\ At(new, e[1].index) = e[1].point
      /\ \A k \in Indices(old) :
           At(old, k) = At(new, IF k < e[1].index THEN k ELSE k + 1)
      /\ r.selectedPolygon = i
      /\ r.selectedHandle = e[1].index
      /\ r.currentPoints = << >>

C8_InsertionIntoLastCandidate ==
  \A p \in AllPoints :
    ( /\ activeTool = "pencil"
      /\ drag = "idle"
      /\ currentPoints = << >>
      /\ \E i \in Indices(polygons) :
           findClosestEdgePoint(p, At(polygons, i).points) # None )
    => LET r == handleInteraction(p)
       IN  \E i \in Indices(polygons) : C8_Inserted(p, i, r)

(* The click at (40, 0), a vertex of both polygons, went into the second. *)
C8_Witness ==
  /\ activeTool = "pencil"
  /\ Len(polygons) = 2
  /\ Len(polygons[1].points) = 3
  /\ Len(polygons[2].points) = 4
  /\ selectedPolygon = 1
  /\ selectedHandle # null
  /\ currentPoints = << >>
  /\ findClosestEdgePoint(Point(40, 0), polygons[1].points) # None

(***************************************************************************)
(* C9: on a press under the hand or select tool that does not match a      *)
(* vertex handle, if some polygons contain the press point, the one of the *)
(* highest index becomes the selected polygon, the drag session becomes    *)
(* moving, the anchor becomes the press point, and no point of a polygon   *)
(* changes.                                                                *)
(***************************************************************************)
C9_FillPressSelectsLastHit ==
  \A p \in CanvasPoints :
    ( /\ activeTool \in {"hand", "select"}
      /\ ~(activeTool = "select" /\ NearVertices(p) # {})
      /\ Hit(p) # {} )
    => LET r == handleStart(p)
       IN  /\ r.selectedPolygon \in Hit(p)
           /\ \A j \in Hit(p) : j <= r.selectedPolygon
           /\ dragOf(r) = "moving"
           /\ r.dragStart = Some(p)
           /\ r.polygons = polygons

(* The press point is inside both polygons and the second is selected. *)
C9_Witness ==
  /\ drag = "moving"
  /\ moves = 0
  /\ Len(polygons) = 2
  /\ selectedPolygon = 1
  /\ dragStart # None
  /\ Hit(dragStart[1]) = {0, 1}

(***************************************************************************)
(* C10: on a press under the select tool while a polygon is selected, if   *)
(* some vertex of the selected polygon is at distance < 8 of the press     *)
(* point, the drag session becomes resizing, the selected vertex becomes   *)
(* the lowest index of such a vertex, the anchor becomes the press point   *)
(* and the selected polygon is unchanged, also when the press point lies   *)
(* inside another polygon of a higher index.                               *)
(***************************************************************************)
C10_HandlePressStartsResize ==
  \A p \in CanvasPoints :
    ( /\ activeTool = "select"
      /\ selectedPolygon # null
      /\ NearVertices(p) # {} )
    => LET r == handleStart(p)
       IN  /\ dragOf(r) = "resizing"
           /\ r.selectedHandle \in NearVertices(p)
           /\ \A k \in NearVertices(p) : r.selectedHandle <= k
           /\ r.dragStart = Some(p)
           /\ r.selectedPolygon = selectedPolygon
           /\ r.polygons = polygons

(* The first polygon is resized from a press inside the second polygon. *)
C10_Witness ==
  /\ drag = "resizing"
  /\ activeTool = "select"
  /\ Len(polygons) = 2
  /\ polygons[1].points = << Point(0, 0), Point(40, 0), Point(40, 40) >>
  /\ selectedPolygon = 0
  /\ selectedHandle # null
  /\ dragStart # None
  /\ 1 \in Hit(dragStart[1])
  /\ isPointNearHandle(dragStart[1], At(polygons[1].points, selectedHandle))

(* The polygons after the translation of every point of the selected       *)
(* polygon by the difference of the point p and the anchor.                *)
Translated(p) ==
  [polygons EXCEPT
     ![selectedPolygon + 1].points =
        [k \in 1 .. Len(@) |->
           [x |-> Plus(@[k].x, Minus(p.x, dragStart[1].x)),
            y |-> Plus(@[k].y, Minus(p.y, dragStart[1].y))]]]

(***************************************************************************)
(* C11: a release or cancel event leaves the drag session idle and the     *)
(* anchor none; it clears the selected vertex if no drag was active when   *)
(* it arrived and leaves it unchanged if a drag was active; the selected   *)
(* polygon, the polygons, the path in progress and the tool are unchanged. *)
(***************************************************************************)
C11_ReleaseEndsDrag ==
  LET r == handleEnd
  IN  /\ dragOf(r) = "idle"
      /\ r.dragStart = None
      /\ (drag = "idle" => r.selectedHandle = null)
      /\ (drag # "idle" => r.selectedHandle = selectedHandle)
      /\ r.selectedPolygon = selectedPolygon
      /\ r.polygons = polygons
      /\ r.currentPoints = currentPoints
      /\ r.activeTool = activeTool

(* A resizing drag that moved a vertex was released: the vertex is still   *)
(* selected.                                                               *)
C11_Witness ==
  /\ drag = "idle"
  /\ dragStart = None
  /\ dragMode = "move"
  /\ activeTool = "select"
  /\ moves = 1
  /\ selectedPolygon # null
  /\ selectedHandle # null

(***************************************************************************)
(* C12: a switch to the tool t, from any state, leaves the drag session    *)
(* idle and the anchor none; if t is pencil it leaves no polygon and no    *)
(* vertex selected; if t is hand or select it leaves the path in progress  *)
(* empty, so that a switch back to pencil starts from an empty path; it    *)
(* never changes the polygons.                                             *)
(***************************************************************************)
C12_ToolSwitchResets ==
  \A t \in Tool :
    LET r == handleToolChange(t)
    IN  /\ r.activeTool = t
        /\ dragOf(r) = "idle"
        /\ r.dragStart = None
        /\ (t = "pencil" => r.selectedPolygon = null /\ r.selectedHandle = null)
        /\ (t \in {"hand", "select"} => r.currentPoints = << >>)
        /\ (activeTool \in {"hand", "select"} /\ t = "pencil"
              => r.currentPoints = << >>)
        /\ r.polygons = polygons

(* The tool was switched with two points of a path drawn, and the path is  *)
(* lost.                                                                   *)
C12_Witness ==
  /\ activeTool = "select"
  /\ clicks = 2
  /\ polygons = << >>
  /\ currentPoints = << >>
  /\ drag = "idle"
  /\ dragStart = None

(***************************************************************************)
(* C13: a click that arrives while a drag is active changes nothing: the   *)
(* polygons, the path in progress, the selected polygon, the selected      *)
(* vertex, the tool, the drag mode and the anchor are all unchanged.       *)
(***************************************************************************)
C13_ClickInDragChangesNothing ==
  \A p \in AllPoints :
    drag # "idle" =>
      LET r == handleInteraction(p)
      IN  /\ r.polygons = polygons
          /\ r.currentPoints = currentPoints
          /\ r.selectedPolygon = selectedPolygon
          /\ r.selectedHandle = selectedHandle
          /\ r.activeTool = activeTool
          /\ r.dragMode = dragMode
          /\ r.dragStart = dragStart
          /\ r.isDragging = isDragging

(* A polygon is being moved under the hand tool, and some click would be   *)
(* near an edge of a polygon.                                              *)
C13_Witness ==
  /\ drag = "moving"
  /\ activeTool = "hand"
  /\ selectedPolygon # null
  /\ moves = 1
  /\ \E p \in AllPoints : \E i \in Indices(polygons) :
       findClosestEdgePoint(p, At(polygons, i).points) # None

(* A polygon is committed only at the end, with the colour of the palette  *)
(* at the number of polygons before it, and the polygons before it keep    *)
(* their place and colour; a step that commits none keeps every colour.    *)
C14_Step ==
  /\ Len(polygons') \in {Len(polygons), Len(polygons) + 1}
  /\ \A i \in 1 .. Len(polygons) : polygons'[i].color = polygons[i].color
  /\ Len(polygons') = Len(polygons) + 1 =>
       polygons'[Len(polygons')].color = colors[(Len(polygons) % 8) + 1]

(* The polygon at index i (from 0) has the colour i mod 8 of the palette. *)
C14_Colours ==
  \A i \in Indices(polygons) : At(polygons, i).color = colors[(i % 8) + 1]

(***************************************************************************)
(* C14: each polygon has the colour palette[k mod 8], k being the number   *)
(* of committed polygons at the moment it was committed; polygons are      *)
(* never removed or reordered and every mutation preserves the colour, so  *)
(* in every reachable state the polygon at index i has the colour          *)
(* palette[i mod 8].                                                       *)
(***************************************************************************)
C14_PaletteByIndex == []C14_Colours /\ [][C14_Step]_vars

(* The ninth polygon has the first colour again, after a vertex of the     *)
(* first polygon was inserted and a move changed it.                       *)
C14_Witness ==
  /\ Len(polygons) = 9
  /\ polygons[8].color = colors[8]
  /\ polygons[9].color = colors[1]
  /\ Len(polygons[1].points) = 4
  /\ moves = 1

(* The polygons after the selected vertex of the selected polygon moved by *)
(* the difference of the point p and the anchor.                           *)
C15_Relocated(p) ==
  [polygons EXCEPT
     ![selectedPolygon + 1].points[selectedHandle + 1] =
        [x |-> Plus(@.x, Minus(p.x, dragStart[1].x)),
         y |-> Plus(@.y, Minus(p.y, dragStart[1].y))]]

(***************************************************************************)
(* C15: on a move event while the drag session is resizing, with delta the *)
(* difference of the current point and the anchor, the selected vertex of  *)
(* the selected polygon becomes old + delta and no other point changes:    *)
(* every other vertex of that polygon, every other polygon, the numbers of *)
(* points, the colours and the selection are unchanged; the anchor becomes *)
(* the current point.                                                      *)
(***************************************************************************)
C15_ResizeMovesOneVertex ==
  \A p \in CanvasPoints :
    drag = "resizing" =>
      LET r == handleMove(p)
      IN  /\ selectedPolygon # null
          /\ selectedHandle \in Indices(At(polygons, selectedPolygon).points)
          /\ dragStart # None
          /\ r.polygons = C15_Relocated(p)
          /\ r.selectedPolygon = selectedPolygon
          /\ r.selectedHandle = selectedHandle
          /\ r.dragStart = Some(p)

(***************************************************************************)
(* C16: on a move event while the drag session is moving, with delta the   *)
(* difference of the current point and the anchor, every point of the      *)
(* selected polygon becomes old + delta, with the same number and order of *)
(* points, no other polygon changes, and the anchor becomes the current    *)
(* point.                                                                  *)
(***************************************************************************)
C16_MoveTranslatesPolygon ==
  \A p \in CanvasPoints :
    drag = "moving" =>
      LET r == handleMove(p)
      IN  /\ selectedPolygon # null
          /\ dragStart # None
          /\ r.polygons = Translated(p)
          /\ r.dragStart = Some(p)

(* The points of the selected polygon after a move event at p followed by  *)
(* a move event back at the anchor a: the second handleMove reads the      *)
(* anchor p that the first one set.                                        *)
C17_ThereAndBack(p, a) ==
  MovedPoints(At(handleMove(p).polygons, selectedPolygon).points,
              Minus(a.x, p.x), Minus(a.y, p.y))

(***************************************************************************)
(* C17: in a moving drag, a move event of delta (dx, dy) followed by a     *)
(* move event of delta (-dx, -dy) leaves the points of the selected        *)
(* polygon exactly what they were before the two moves.                    *)
(***************************************************************************)
C17_TranslationRoundTrip ==
  \A p \in CanvasPoints :
    (drag = "moving" /\ selectedPolygon # null /\ dragStart # None) =>
      C17_ThereAndBack(p, dragStart[1])
        = At(polygons, selectedPolygon).points

(***************************************************************************)
(* The edges of C18, in exact integer arithmetic, for points of integer    *)
(* coordinates: the edge from a to b has a projection of p when it has a   *)
(* non-zero length and the parameter t = dot / length^2 is in [0, 1]; the  *)
(* squared distance of p to the projection is cross^2 / length^2.          *)
(***************************************************************************)
C18_Int(a) == a[1] * (2 ^ a[2])

C18_Integral(points) ==
  \A k \in 1 .. Len(points) : points[k].x[2] >= 0 /\ points[k].y[2] >= 0

C18_Dot(p, a, b) ==
  (C18_Int(p.x) - C18_Int(a.x)) * (C18_Int(b.x) - C18_Int(a.x))
  + (C18_Int(p.y) - C18_Int(a.y)) * (C18_Int(b.y) - C18_Int(a.y))

C18_Cross(p, a, b) ==
  (C18_Int(p.x) - C18_Int(a.x)) * (C18_Int(b.y) - C18_Int(a.y))
  - (C18_Int(p.y) - C18_Int(a.y)) * (C18_Int(b.x) - C18_Int(a.x))

C18_Len2(a, b) ==
  (C18_Int(b.x) - C18_Int(a.x)) * (C18_Int(b.x) - C18_Int(a.x))
  + (C18_Int(b.y) - C18_Int(a.y)) * (C18_Int(b.y) - C18_Int(a.y))

C18_End(points, i) == At(points, (i + 1) % Len(points))

(* The edges with a projection of p at distance < 10 of p. *)
C18_Edges(p, points) ==
  { i \in Indices(points) :
      LET a == At(points, i)
          b == C18_End(points, i)
      IN  /\ C18_Len2(a, b) > 0
          /\ C18_Dot(p, a, b) >= 0
          /\ C18_Dot(p, a, b) <= C18_Len2(a, b)
          /\ C18_Cross(p, a, b) * C18_Cross(p, a, b)
               < EDGE_DETECTION_THRESHOLD * EDGE_DETECTION_THRESHOLD
                 * C18_Len2(a, b) }

(* The edges of C18_Edges at the minimal distance of p. *)
C18_Closest(p, points) ==
  { i \in C18_Edges(p, points) :
      \A j \in C18_Edges(p, points) :
        C18_Cross(p, At(points, i), C18_End(points, i))
          * C18_Cross(p, At(points, i), C18_End(points, i))
          * C18_Len2(At(points, j), C18_End(points, j))
        <= C18_Cross(p, At(points, j), C18_End(points, j))
             * C18_Cross(p, At(points, j), C18_End(points, j))
             * C18_Len2(At(points, i), C18_End(points, i)) }

(***************************************************************************)
(* C18: findClosestEdgePoint(p, points), over the n edges from i to        *)
(* (i + 1) mod n, returns none iff no edge has a projection of p           *)
(* (parameter in [0, 1], edge of non-zero length) at distance < 10 of p;   *)
(* otherwise it returns the projection on the edge of minimal distance and *)
(* the index i + 1 for that edge i, between 1 and n, and of several edges  *)
(* at the minimal distance the one of the lowest index.                    *)
(***************************************************************************)
C18_ClosestEdgeReturned ==
  \A p \in EdgeClickPoints :
    LET points == polygons[1].points
        r == findClosestEdgePoint(p, points)
    IN  C18_Integral(points) =>
          IF C18_Edges(p, points) = {}
          THEN r = None
          ELSE /\ r # None
               /\ r[1].index = SetMin(C18_Closest(p, points)) + 1
               /\ r[1].index \in 1 .. Len(points)
               /\ projectPointOnLine(p, At(points, r[1].index - 1),
                                     C18_End(points, r[1].index - 1))
                    = Some(r[1].point)

(***************************************************************************)
(* C19: whenever the tool is pencil the drag session is idle: no reachable *)
(* state has the pencil tool and a moving or resizing drag, a press under  *)
(* the pencil tool changes no state at all, a switch to pencil ends any    *)
(* drag, and no move event under pencil changes a polygon.                 *)
(***************************************************************************)
C19_PencilNeverDrags ==
  /\ activeTool = "pencil" => drag = "idle"
  /\ activeTool = "pencil" => \A p \in AllPoints : handleStart(p) = current
  /\ dragOf(handleToolChange("pencil")) = "idle"
  /\ activeTool = "pencil" =>
       \A p \in AllPoints : handleMove(p).polygons = polygons

(* A switch to pencil ended a drag: the polygon that the drag moved is     *)
(* there under the pencil tool.                                            *)
C19_Witness ==
  /\ activeTool = "pencil"
  /\ moves = 1
  /\ polygons # << >>
  /\ drag = "idle"
  /\ \E p \in CanvasPoints : Hit(p) # {}

(***************************************************************************)
(* C20: whenever the tool is hand the drag session is never resizing: a    *)
(* press under hand skips the test of the vertex handles, also within the  *)
(* handle radius of a vertex of the selected polygon, and a drag mode left *)
(* by the select tool has no effect, so that under hand every move event   *)
(* either changes nothing or translates all points of the selected polygon *)
(* by the same delta.                                                      *)
(***************************************************************************)
C20_HandNeverResizes ==
  activeTool = "hand" =>
    /\ drag # "resizing"
    /\ \A p \in CanvasPoints :
         /\ dragOf(handleStart(p)) # "resizing"
         /\ handleStart(p).selectedHandle \in {selectedHandle, null}
         /\ \/ handleMove(p) = current
            \/ /\ selectedPolygon # null
               /\ dragStart # None
               /\ handleMove(p).polygons = Translated(p)

(* Under hand, with the drag mode resize left by the select tool, a press  *)
(* within the handle radius of a vertex of the selected polygon started a  *)
(* moving drag.                                                            *)
C20_Witness ==
  /\ activeTool = "hand"
  /\ drag = "moving"
  /\ selectedPolygon # null
  /\ selectedHandle # null
  /\ dragStart # None
  /\ NearVertices(dragStart[1]) # {}

====
